---- MODULE Spec2Model ----
(***************************************************************************)
(* The relationship graph store (models/graph_rag.py, class GraphRAG) and  *)
(* the segmenter that feeds it (processing/chunking.py, SemanticChunker),  *)
(* as driven by SarthiPipeline (main.py) next to the vector index.          *)
(*                                                                         *)
(* The graph is a networkx DiGraph: one attribute dictionary per node, at  *)
(* most one edge per ordered pair of nodes, one attribute dictionary per   *)
(* edge.  Attribute dictionaries are functions from key strings to values. *)
(* A text is kept as its length and the sequence of its words; a word is   *)
(* a keyword followed by the numeral written after it ("" when none), so   *)
(* that "Section 12" is [kw |-> "Section", num |-> "12"].                  *)
(*                                                                         *)
(* Five specifications share the variables: Spec, the mutating calls of    *)
(* one store, each call one step; SpecP, the calls of the pipeline, which  *)
(* segments the documents and hands the chunks to the vector index and to  *)
(* the store; SpecQ, the store with the reports and the queries; SpecC,    *)
(* the calls statement by statement as the threads of the server (api.py)  *)
(* interleave them; SpecT, the segmenter alone on texts given with their   *)
(* white space.                                                            *)
(***************************************************************************)
EXTENDS Integers, Sequences, FiniteSets, TLC

VARIABLES graph, disk, last, query, steps, threads, chunker, vector_store

vars == <<graph, disk, last, query, steps, threads, chunker, vector_store>>

(***************************************************************************)
(* Bounds of the model.                                                    *)
(***************************************************************************)
MaxChunks == 4
MaxSteps == 3
MaxQuerySteps == 2
MaxCalls == 2
MaxThreadChunks == 2
MaxPieces == 3

(***************************************************************************)
(* Program constants (config.py).                                          *)
(***************************************************************************)
CHUNK_SIZE == 1000
CHUNK_OVERLAP == 200

Docs == {"d1", "d2"}
UnknownId == "nope"

EmptyFcn == [x \in {} |-> x]

Restrict(f, S) == [x \in (DOMAIN f) \cap S |-> f[x]]

Get(attrs, key, default) == IF key \in DOMAIN attrs THEN attrs[key] ELSE default

Range(q) == {q[i] : i \in 1..Len(q)}

(***************************************************************************)
(* networkx.DiGraph                                                        *)
(***************************************************************************)
\* node: the attribute dictionary of every node; adj: the attribute
\* dictionary of every edge u -> v; succ: for every node with successors, its
\* successors in the order their edges were first added (the order in which
\* the adjacency dictionary of the node is iterated).
DiGraph == [node |-> EmptyFcn, adj |-> EmptyFcn, succ |-> EmptyFcn]

has_node(g, n) == n \in DOMAIN g.node

\* add_node(n, **attr): creates the node or merges attr into its dictionary.
add_node(g, n, attr) ==
    [g EXCEPT !.node = (n :> (attr @@ Get(g.node, n, EmptyFcn))) @@ g.node]

\* add_edge of a multigraph: every call adds one more edge u -> v.
add_edge_parallel(g, u, v, attr) ==
    LET g1 == IF has_node(g, u) THEN g ELSE [g EXCEPT !.node = (u :> EmptyFcn) @@ g.node]
        g2 == IF has_node(g1, v) THEN g1 ELSE [g1 EXCEPT !.node = (v :> EmptyFcn) @@ g1.node]
    IN [g2 EXCEPT !.adj = (<<u, v>> :> (attr @@ Get(g2.adj, <<u, v>>, EmptyFcn))) @@ g2.adj,
                  !.succ = (u :> Append(Get(g2.succ, u, <<>>), v)) @@ g2.succ]

\* add_edge(u, v, **attr): creates missing end points, then creates the edge
\* or merges attr into the dictionary of the edge u -> v.
add_edge(g, u, v, attr) ==
    LET g1 == IF has_node(g, u) THEN g ELSE add_node(g, u, EmptyFcn)
        g2 == IF has_node(g1, v) THEN g1 ELSE add_node(g1, v, EmptyFcn)
    IN [g2 EXCEPT !.adj = (<<u, v>> :> (attr @@ Get(g2.adj, <<u, v>>, EmptyFcn))) @@ g2.adj,
                  !.succ = IF <<u, v>> \in DOMAIN g2.adj THEN g2.succ
                           ELSE (u :> Append(Get(g2.succ, u, <<>>), v)) @@ g2.succ]

\* remove_node(n): removes n and every edge into or out of n.
remove_node(g, n) ==
    [node |-> Restrict(g.node, (DOMAIN g.node) \ {n}),
     adj  |-> Restrict(g.adj, {e \in DOMAIN g.adj : e[1] # n /\ e[2] # n}),
     succ |-> [u \in {x \in (DOMAIN g.succ) \ {n} : g.succ[x] # <<n>>} |->
                 SelectSeq(g.succ[u], LAMBDA v : v # n)]]

\* list(G.successors(n)): the successors of n in iteration order.
successor_list(g, n) == Get(g.succ, n, <<>>)

successors(g, n) == {e[2] : e \in {x \in DOMAIN g.adj : x[1] = n}}

predecessors(g, n) == {e[1] : e \in {x \in DOMAIN g.adj : x[2] = n}}

node_type(g, n) == Get(g.node[n], "node_type", "None")

number_of_nodes(g) == Cardinality(DOMAIN g.node)

number_of_edges(g) == Cardinality(DOMAIN g.adj)

\* nx.single_source_shortest_path_length(G, source, cutoff): the nodes within
\* cutoff directed edges of source, source included (at distance 0).
RECURSIVE WithinCutoff(_, _, _)
WithinCutoff(g, reached, cutoff) ==
    LET next == reached \cup UNION {successors(g, n) : n \in reached}
    IN IF cutoff <= 0 \/ next = reached THEN reached
       ELSE WithinCutoff(g, next, cutoff - 1)

\* The nodes within cutoff edges of source, the edges taken in either direction.
RECURSIVE WithinCutoffUndirected(_, _, _)
WithinCutoffUndirected(g, reached, cutoff) ==
    LET next == reached \cup UNION {successors(g, n) \cup predecessors(g, n) : n \in reached}
    IN IF cutoff <= 0 \/ next = reached THEN reached
       ELSE WithinCutoffUndirected(g, next, cutoff - 1)

single_source_undirected(g, source, cutoff) ==
    WithinCutoffUndirected(g, {source}, cutoff)

\* The nodes within cutoff edges of source, source left out.
single_source_without_source(g, source, cutoff) ==
    WithinCutoff(g, {source}, cutoff) \ {source}

single_source_shortest_path_length(g, source, cutoff) ==
    WithinCutoff(g, {source}, cutoff)

(***************************************************************************)
(* Texts and chunks (processing/chunking.py)                               *)
(***************************************************************************)
W(kw, num) == [kw |-> kw, num |-> num]

Sentence(len, words) == [len |-> len, words |-> words]

Chunk(text, metadata, chunk_id) ==
    [text |-> text, metadata |-> metadata, chunk_id |-> chunk_id]

\* f"{doc_id}_chunk_{chunk_num}"
ChunkId(doc_id, chunk_num) == doc_id \o "_chunk_" \o ToString(chunk_num)

RECURSIVE SumLen(_)
SumLen(sents) ==
    IF sents = <<>> THEN 0 ELSE Head(sents).len + SumLen(Tail(sents))

RECURSIVE ConcatWords(_)
ConcatWords(sents) ==
    IF sents = <<>> THEN <<>> ELSE Head(sents).words \o ConcatWords(Tail(sents))

\* ' '.join(current_chunk): one space between consecutive sentences.
Join(sents) ==
    [len   |-> IF sents = <<>> THEN 0 ELSE SumLen(sents) + (Len(sents) - 1),
     words |-> ConcatWords(sents)]

\* The overlap walk without its test against chunk_overlap.
RECURSIVE OverlapWalk_unbounded(_, _, _, _, _)
OverlapWalk_unbounded(current_chunk, k, overlap_sentences, overlap_length, chunk_overlap) ==
    IF k = 0 THEN overlap_sentences
    ELSE OverlapWalk_unbounded(current_chunk, k - 1,
                               <<current_chunk[k]>> \o overlap_sentences,
                               overlap_length + current_chunk[k].len, chunk_overlap)

\* The overlap walk that carries the last sentence whatever its length.
OverlapWalk_keep_last(current_chunk, k, overlap_sentences, overlap_length, chunk_overlap) ==
    IF k = 0 THEN overlap_sentences ELSE <<current_chunk[k]>>

\* The overlap walk: whole sentences taken from the end of the closed chunk
\* while their cumulative length stays within chunk_overlap.
RECURSIVE OverlapWalk(_, _, _, _, _)
OverlapWalk(current_chunk, k, overlap_sentences, overlap_length, chunk_overlap) ==
    IF k = 0 THEN overlap_sentences
    ELSE IF overlap_length + current_chunk[k].len <= chunk_overlap
         THEN OverlapWalk(current_chunk, k - 1,
                          <<current_chunk[k]>> \o overlap_sentences,
                          overlap_length + current_chunk[k].len, chunk_overlap)
         ELSE overlap_sentences

ChunkMetadata(metadata, doc_id, chunk_num, start_sentence, end_sentence, chunk_length) ==
    [chunk_id       |-> ChunkId(doc_id, chunk_num),
     chunk_num      |-> chunk_num,
     start_sentence |-> start_sentence,
     end_sentence   |-> end_sentence,
     chunk_length   |-> chunk_length] @@ metadata

\* A chunk whose end_sentence is the index of its last sentence.
MakeChunk_inclusive_end(current_chunk, current_length, metadata, doc_id, chunk_num, end_sentence) ==
    Chunk(Join(current_chunk),
          ChunkMetadata(metadata, doc_id, chunk_num,
                        end_sentence - Len(current_chunk), end_sentence - 1, current_length),
          ChunkId(doc_id, chunk_num))

MakeChunk(current_chunk, current_length, metadata, doc_id, chunk_num, end_sentence) ==
    Chunk(Join(current_chunk),
          ChunkMetadata(metadata, doc_id, chunk_num,
                        end_sentence - Len(current_chunk), end_sentence, current_length),
          ChunkId(doc_id, chunk_num))

\* The loop of chunk_text; i is the 0-based index of the sentence looked at.
RECURSIVE ChunkLoop(_, _, _, _, _, _, _, _, _, _)
ChunkLoop(sentences, i, current_chunk, current_length, chunk_num, chunks, metadata, doc_id, chunk_size, chunk_overlap) ==
    IF i = Len(sentences)
    THEN IF current_chunk # <<>>
         THEN Append(chunks, MakeChunk(current_chunk, current_length, metadata,
                                       doc_id, chunk_num, Len(sentences)))
         ELSE chunks
    ELSE LET sentence == sentences[i + 1]
             close == current_length + sentence.len > chunk_size /\ current_chunk # <<>>
             overlap_sentences ==
                 OverlapWalk(current_chunk, Len(current_chunk), <<>>, 0, chunk_overlap)
         IN IF close
            THEN ChunkLoop(sentences, i + 1,
                           Append(overlap_sentences, sentence),
                           SumLen(overlap_sentences) + sentence.len,
                           chunk_num + 1,
                           Append(chunks, MakeChunk(current_chunk, current_length,
                                                    metadata, doc_id, chunk_num, i)),
                           metadata, doc_id, chunk_size, chunk_overlap)
            ELSE ChunkLoop(sentences, i + 1,
                           Append(current_chunk, sentence),
                           current_length + sentence.len,
                           chunk_num, chunks,
                           metadata, doc_id, chunk_size, chunk_overlap)

\* A text as the segmenter reads it: the white space it starts with, then its
\* pieces.  A piece is a run of characters that starts and ends with a
\* character that is no white space, with the white space that follows it:
\* len characters, ending or not with one of . ! ? and the danda, starting
\* or not with an upper-case letter or a digit, followed by gap >= 1
\* characters of white space (the end of the text, after the last piece).
Piece(len, stop, upper, gap) ==
    [len |-> len, words |-> <<W("w", ToString(len))>>, stop |-> stop, upper |-> upper,
     gap |-> gap]

Text(lead, pieces) == [lead |-> lead, pieces |-> pieces]

RECURSIVE TextLen(_)
TextLen(text) ==
    IF text.pieces = <<>> THEN text.lead
    ELSE Head(text.pieces).len + Head(text.pieces).gap
         + TextLen(Text(text.lead, Tail(text.pieces)))

\* re.split(sentence_pattern, text) and the strip of each part: the white
\* space after a piece splits when the piece ends with a terminator and the
\* next piece starts with an upper-case letter or a digit, and is otherwise
\* kept inside the sentence; cur is the sentence being read, <<>> when none.
RECURSIVE SplitLoop(_, _, _, _)
SplitLoop(pieces, k, cur, sentences) ==
    IF k > Len(pieces) THEN sentences \o cur
    ELSE LET p == pieces[k]
             s == IF cur = <<>> THEN Sentence(p.len, p.words)
                  ELSE Sentence(cur[1].len + pieces[k - 1].gap + p.len,
                                cur[1].words \o p.words)
         IN IF k < Len(pieces) /\ p.stop /\ pieces[k + 1].upper
            THEN SplitLoop(pieces, k + 1, <<>>, Append(sentences, s))
            ELSE SplitLoop(pieces, k + 1, <<s>>, sentences)

\* The split with its parts left unstripped: the white space the text starts
\* and ends with stays in the first and the last sentence.
_split_into_sentences_unstripped(text) ==
    LET sentences == SplitLoop(text.pieces, 1, <<>>, <<>>)
        n == Len(sentences)
    IN IF n = 0 THEN <<>>
       ELSE [k \in 1..n |->
               Sentence(sentences[k].len + (IF k = 1 THEN text.lead ELSE 0)
                                         + (IF k = n THEN text.pieces[Len(text.pieces)].gap
                                            ELSE 0),
                        sentences[k].words)]

\* SemanticChunker._split_into_sentences(text): a text without pieces is
\* white space only and gives no sentence.
_split_into_sentences(text) ==
    SplitLoop(text.pieces, 1, <<>>, <<>>)

\* SemanticChunker(chunk_size, chunk_overlap), with the text of its call of
\* chunk_text and, once called, the chunks returned.
SemanticChunker(chunk_size, chunk_overlap) ==
    [chunk_size |-> chunk_size, chunk_overlap |-> chunk_overlap,
     text |-> Text(0, <<>>), called |-> FALSE, chunks |-> <<>>]

\* SemanticChunker(chunk_size, chunk_overlap).chunk_text(text, metadata, doc_id),
\* on the text already split into its sentences.
chunk_text(sentences, metadata, doc_id, chunk_size, chunk_overlap) ==
    IF sentences = <<>> THEN <<>>
    ELSE ChunkLoop(sentences, 0, <<>>, 0, 0, <<>>, metadata, doc_id,
                   chunk_size, chunk_overlap)

(***************************************************************************)
(* Persistence (GraphRAG._save_graph, _load_graph)                         *)
(*                                                                         *)
(* The file is missing, holds text json.load rejects ("truncated"), or     *)
(* holds a JSON value ("json").  Every attribute value of the model is a   *)
(* string, an integer or a dictionary of those, which JSON keeps exactly.  *)
(***************************************************************************)
NoFile == [kind |-> "missing", data |-> EmptyFcn]

TruncatedFile == [kind |-> "truncated", data |-> EmptyFcn]

JsonFile(data) == [kind |-> "json", data |-> data]

Faults == {"none", "open", "write"}

\* node_link_data that writes the end points of the links without their attributes.
node_link_data_bare_links(g) ==
    [directed   |-> TRUE,
     multigraph |-> FALSE,
     graph      |-> EmptyFcn,
     nodes      |-> {("id" :> n) @@ g.node[n] : n \in DOMAIN g.node},
     links      |-> [u \in DOMAIN g.succ |->
                        [i \in 1..Len(g.succ[u]) |->
                           ("source" :> u) @@ ("target" :> g.succ[u][i])]]]

\* nx.node_link_data(G): {**G.nodes[n], "id": n} per node and
\* {**d, "source": u, "target": v} per edge.  The list of links is written
\* node by node, the out-edges of a node in the order of its adjacency; it is
\* kept here as the list of every source node (the order among the source
\* nodes plays no part in any operation of the store).
node_link_data(g) ==
    [directed   |-> TRUE,
     multigraph |-> FALSE,
     graph      |-> EmptyFcn,
     nodes      |-> {("id" :> n) @@ g.node[n] : n \in DOMAIN g.node},
     links      |-> [u \in DOMAIN g.succ |->
                        [i \in 1..Len(g.succ[u]) |->
                           ("source" :> u) @@ ("target" :> g.succ[u][i])
                              @@ g.adj[<<u, g.succ[u][i]>>]]]]

\* nx.node_link_graph(data): a node per entry of "nodes" (its attributes are
\* the entry without "id"), an edge per entry of "links" (its attributes are
\* the entry without "source" and "target").  KeyError when a key is missing.
node_link_graph(data) ==
    IF ~({"nodes", "links"} \subseteq DOMAIN data)
    THEN [raised |-> TRUE, graph |-> DiGraph]
    ELSE [raised |-> FALSE,
          graph  |->
            [node |-> [n \in {d["id"] : d \in data.nodes} |->
                        LET d == CHOOSE x \in data.nodes : x["id"] = n
                        IN Restrict(d, (DOMAIN d) \ {"id"})],
             adj  |-> [e \in UNION {{<<u, l["target"]>> : l \in Range(data.links[u])} :
                                   u \in DOMAIN data.links} |->
                        LET l == CHOOSE x \in Range(data.links[e[1]]) : x["target"] = e[2]
                        IN Restrict(l, (DOMAIN l) \ {"source", "target"})],
             succ |-> [u \in DOMAIN data.links |->
                        [i \in 1..Len(data.links[u]) |-> data.links[u][i]["target"]]]]]

\* _save_graph without its except clause: the exception leaves the method.
_save_graph_raising(g, dsk, fault) ==
    CASE fault = "none"  -> [disk |-> JsonFile(node_link_data(g)), save |-> "ok", raised |-> FALSE]
      [] fault = "open"  -> [disk |-> dsk, save |-> "failed", raised |-> TRUE]
      [] fault = "write" -> [disk |-> TruncatedFile, save |-> "failed", raised |-> TRUE]

\* _save_graph: every exception is caught and logged, none leaves the method.
\* fault "open": open(file, 'w') raises and the file is untouched;
\* fault "write": json.dump raises after open truncated the file.
_save_graph(g, dsk, fault) ==
    CASE fault = "none"  -> [disk |-> JsonFile(node_link_data(g)), save |-> "ok", raised |-> FALSE]
      [] fault = "open"  -> [disk |-> dsk, save |-> "failed", raised |-> FALSE]
      [] fault = "write" -> [disk |-> TruncatedFile, save |-> "failed", raised |-> FALSE]

\* _load_graph without its except clause: a file that does not parse makes
\* the constructor raise.
_load_graph_uncaught(dsk) ==
    IF dsk.kind = "missing" THEN [graph |-> DiGraph, raised |-> FALSE]
    ELSE IF dsk.kind = "truncated" THEN [graph |-> DiGraph, raised |-> TRUE]
    ELSE LET r == node_link_graph(dsk.data)
         IN IF r.raised THEN [graph |-> DiGraph, raised |-> TRUE]
            ELSE [graph |-> r.graph, raised |-> FALSE]

\* __init__ and _load_graph: the graph starts as an empty DiGraph and is
\* replaced by the parsed file when the file exists and parses.
_load_graph(dsk) ==
    IF dsk.kind = "missing" THEN [graph |-> DiGraph, raised |-> FALSE]
    ELSE IF dsk.kind = "truncated" THEN [graph |-> DiGraph, raised |-> FALSE]
    ELSE LET r == node_link_graph(dsk.data)
         IN IF r.raised THEN [graph |-> DiGraph, raised |-> FALSE]
            ELSE [graph |-> r.graph, raised |-> FALSE]

(***************************************************************************)
(* Entity extraction (GraphRAG._extract_and_link_entities)                 *)
(***************************************************************************)
\* re.IGNORECASE on the keyword of a word.
Lower(kw) ==
    CASE kw \in {"Section", "section", "SECTION"} -> "section"
      [] kw \in {"Chapter", "chapter", "CHAPTER"} -> "chapter"
      [] OTHER -> kw

\* The numerals of the model that \d+ matches, and those [IVX\d]+ matches
\* under re.IGNORECASE.
DecimalNumerals == {"12", "5"}

ChapterNumerals == DecimalNumerals \cup {"IV", "iv"}

\* re.findall(pattern, text, re.IGNORECASE): the numeral of every match, as
\* written, in text order.
RECURSIVE FindAll(_, _, _)
FindAll(words, keyword, numerals) ==
    IF words = <<>> THEN <<>>
    ELSE LET w == Head(words)
             rest == FindAll(Tail(words), keyword, numerals)
         IN IF Lower(w.kw) = keyword /\ w.num \in numerals
            THEN <<w.num>> \o rest ELSE rest

\* The loops with an entity id made per citing chunk.
RECURSIVE LinkEntities_per_chunk(_, _, _, _, _)
LinkEntities_per_chunk(g, chunk_id, found, kind, num_key) ==
    IF found = <<>> THEN g
    ELSE LET entity_id == chunk_id \o "_" \o kind \o "_" \o Head(found)
             g1 == IF ~has_node(g, entity_id)
                   THEN add_node(g, entity_id,
                                 ("node_type" :> kind) @@ (num_key :> Head(found)))
                   ELSE g
             g2 == add_edge(g1, chunk_id, entity_id, [relation |-> "references"])
         IN LinkEntities_per_chunk(g2, chunk_id, Tail(found), kind, num_key)

RECURSIVE LinkEntities(_, _, _, _, _)
LinkEntities(g, chunk_id, found, kind, num_key) ==
    IF found = <<>> THEN g
    ELSE LET entity_id == kind \o "_" \o Head(found)
             g1 == IF ~has_node(g, entity_id)
                   THEN add_node(g, entity_id,
                                 ("node_type" :> kind) @@ (num_key :> Head(found)))
                   ELSE g
             g2 == add_edge(g1, chunk_id, entity_id, [relation |-> "references"])
         IN LinkEntities(g2, chunk_id, Tail(found), kind, num_key)

_extract_and_link_entities(g, chunk) ==
    LET sections == FindAll(chunk.text.words, "section", DecimalNumerals)
        chapters == FindAll(chunk.text.words, "chapter", ChapterNumerals)
        g1 == LinkEntities(g, chunk.chunk_id, sections, "section", "section_num")
    IN LinkEntities(g1, chunk.chunk_id, chapters, "chapter", "chapter_num")

(***************************************************************************)
(* Mutations (GraphRAG.add_document, delete_document, clear_all)           *)
(***************************************************************************)
\* The keyword arguments add_document spells out next to **chunk.metadata; a
\* metadata key among them makes the call raise TypeError (keyword given twice).
ChunkKeywords == {"node_type", "text", "chunk_num"}

DocKeywords == {"node_type"}

\* The loop over enumerate(chunks); i is the 0-based index.  The result says
\* whether an exception left the loop, with the graph as it was then.
RECURSIVE AddChunks(_, _, _, _)
AddChunks(g, doc_id, chunks, i) ==
    IF i = Len(chunks) THEN [graph |-> g, raised |-> FALSE]
    ELSE LET chunk == chunks[i + 1]
         IN IF (DOMAIN chunk.metadata) \cap ChunkKeywords # {}
            THEN [graph |-> g, raised |-> TRUE]
            ELSE LET g1 == add_node(g, chunk.chunk_id,
                                    [node_type |-> "chunk", text |-> chunk.text,
                                     chunk_num |-> i] @@ chunk.metadata)
                     g2 == add_edge(g1, doc_id, chunk.chunk_id, [relation |-> "contains"])
                     g3 == IF i > 0
                           THEN add_edge(g2, chunks[i].chunk_id, chunk.chunk_id,
                                         [relation |-> "precedes"])
                           ELSE g2
                 IN AddChunks(_extract_and_link_entities(g3, chunk), doc_id, chunks, i + 1)

\* add_document: an exception raised in the body (the save included) is
\* caught and logged; the save is skipped when the body raised before it.
add_document(g, dsk, doc_id, chunks, metadata, fault) ==
    LET body == IF (DOMAIN metadata) \cap DocKeywords # {}
                THEN [graph |-> g, raised |-> TRUE]
                ELSE AddChunks(add_node(g, doc_id, [node_type |-> "document"] @@ metadata),
                               doc_id, chunks, 0)
        s == _save_graph(body.graph, dsk, fault)
    IN IF body.raised
       THEN [graph |-> body.graph, disk |-> dsk, save |-> "none", raised |-> FALSE]
       ELSE [graph |-> body.graph, disk |-> s.disk, save |-> s.save, raised |-> FALSE]

RECURSIVE RemoveNodes(_, _)
RemoveNodes(g, ns) ==
    IF ns = {} THEN g
    ELSE LET n == CHOOSE x \in ns : TRUE
         IN RemoveNodes(remove_node(g, n), ns \ {n})

\* delete_document that also removes the entities its chunks referenced.
delete_document_with_entities(g, dsk, doc_id, fault) ==
    IF has_node(g, doc_id)
    THEN LET chunks_to_remove == {n \in successors(g, doc_id) : node_type(g, n) = "chunk"}
             entities == UNION {successors(g, c) \ chunks_to_remove : c \in chunks_to_remove}
             g1 == remove_node(RemoveNodes(g, chunks_to_remove \cup entities), doc_id)
             s == _save_graph(g1, dsk, fault)
         IN [graph |-> g1, disk |-> s.disk, save |-> s.save, raised |-> FALSE]
    ELSE [graph |-> g, disk |-> dsk, save |-> "none", raised |-> FALSE]

\* delete_document: acts when the graph has a node with this id.
delete_document(g, dsk, doc_id, fault) ==
    IF has_node(g, doc_id)
    THEN LET chunks_to_remove == {n \in successors(g, doc_id) : node_type(g, n) = "chunk"}
             g1 == remove_node(RemoveNodes(g, chunks_to_remove), doc_id)
             s == _save_graph(g1, dsk, fault)
         IN [graph |-> g1, disk |-> s.disk, save |-> s.save, raised |-> FALSE]
    ELSE [graph |-> g, disk |-> dsk, save |-> "none", raised |-> FALSE]

\* clear_all: no try block of its own.
clear_all(g, dsk, fault) ==
    LET s == _save_graph(DiGraph, dsk, fault)
    IN [graph |-> DiGraph, disk |-> s.disk, save |-> s.save, raised |-> s.raised]

(***************************************************************************)
(* Context expansion (GraphRAG.get_related_chunks)                         *)
(***************************************************************************)
\* The loop over chunk_ids: the set "related" after the loop.
RECURSIVE RelatedLoop(_, _, _, _, _)
RelatedLoop(g, chunk_ids, max_depth, max_chunks, related) ==
    IF chunk_ids = <<>> THEN related
    ELSE LET chunk_id == Head(chunk_ids)
         IN IF ~has_node(g, chunk_id)
            THEN RelatedLoop(g, Tail(chunk_ids), max_depth, max_chunks, related)
            ELSE LET r == related \cup
                            {n \in single_source_shortest_path_length(g, chunk_id, max_depth) :
                                node_type(g, n) = "chunk"}
                 IN IF Cardinality(r) >= max_chunks THEN r
                    ELSE RelatedLoop(g, Tail(chunk_ids), max_depth, max_chunks, r)

\* The sequences of k different members of S: what list(S)[:k] can be, the
\* iteration order of a set of strings being arbitrary.
RECURSIVE Arrangements(_, _)
Arrangements(S, k) ==
    IF k = 0 \/ S = {} THEN {<<>>}
    ELSE UNION {{<<x>> \o t : t \in Arrangements(S \ {x}, k - 1)} : x \in S}

\* get_related_chunks without the cut to max_chunks.
get_related_chunks_uncut(g, chunk_ids, max_depth, max_chunks) ==
    LET related == RelatedLoop(g, chunk_ids, max_depth, max_chunks, {})
    IN Arrangements(related, Cardinality(related))

\* The lists get_related_chunks can return.
get_related_chunks(g, chunk_ids, max_depth, max_chunks) ==
    Arrangements(RelatedLoop(g, chunk_ids, max_depth, max_chunks, {}), max_chunks)

(***************************************************************************)
(* Reports (GraphRAG.get_document_structure, find_cross_references,        *)
(* get_graph_stats)                                                        *)
(***************************************************************************)
EntityTypes == {"section", "chapter"}

\* The chunk_info of one chunk successor of the document: its references are
\* the section and chapter successors of the chunk, in adjacency order.
ChunkInfo(g, successor) ==
    LET refs == SelectSeq(successor_list(g, successor),
                          LAMBDA e : node_type(g, e) \in EntityTypes)
    IN [chunk_id   |-> successor,
        chunk_num  |-> Get(g.node[successor], "chunk_num", "None"),
        references |-> [i \in 1..Len(refs) |->
                          [type |-> node_type(g, refs[i]), id |-> refs[i]]]]

\* The references of the chunk_infos, one list after the other.
RECURSIVE AllReferences(_)
AllReferences(chunks) ==
    IF chunks = <<>> THEN <<>>
    ELSE Head(chunks).references \o AllReferences(Tail(chunks))

\* The successors of doc_id that are chunk nodes, in adjacency order.
ChunkSuccessors(g, doc_id) ==
    SelectSeq(successor_list(g, doc_id), LAMBDA n : node_type(g, n) = "chunk")

\* get_document_structure: {} for an id that is no node; otherwise one
\* chunk_info per chunk successor, in the order the successors are iterated,
\* and per entity type the ids appended reference by reference.
get_document_structure(g, doc_id) ==
    IF ~has_node(g, doc_id) THEN EmptyFcn
    ELSE LET cs     == ChunkSuccessors(g, doc_id)
             chunks == [i \in 1..Len(cs) |-> ChunkInfo(g, cs[i])]
             refs   == AllReferences(chunks)
         IN [doc_id   |-> doc_id,
             metadata |-> g.node[doc_id],
             chunks   |-> chunks,
             entities |-> [t \in {r.type : r \in Range(refs)} |->
                             LET of_t == SelectSeq(refs, LAMBDA r : r.type = t)
                             IN [i \in 1..Len(of_t) |-> of_t[i].id]]]

\* find_cross_references without the test that leaves chunk_id out.
find_cross_references_with_self(g, chunk_id) ==
    IF ~has_node(g, chunk_id) THEN {<<>>}
    ELSE LET entities == {n \in successors(g, chunk_id) : node_type(g, n) \in EntityTypes}
             cross_refs == {p \in UNION {predecessors(g, entity) : entity \in entities} :
                               node_type(g, p) = "chunk"}
         IN Arrangements(cross_refs, Cardinality(cross_refs))

\* The lists find_cross_references can return: list(cross_refs) of a set.
find_cross_references(g, chunk_id) ==
    IF ~has_node(g, chunk_id) THEN {<<>>}
    ELSE LET entities == {n \in successors(g, chunk_id) : node_type(g, n) \in EntityTypes}
             cross_refs == {p \in UNION {predecessors(g, entity) : entity \in entities} :
                               node_type(g, p) = "chunk" /\ p # chunk_id}
         IN Arrangements(cross_refs, Cardinality(cross_refs))

\* The nodes joined to those of "reached" by edges taken in either direction.
RECURSIVE WeakComponent(_, _)
WeakComponent(g, reached) ==
    LET next == reached \cup UNION {successors(g, n) \cup predecessors(g, n) : n \in reached}
    IN IF next = reached THEN reached ELSE WeakComponent(g, next)

\* nx.is_weakly_connected(G): raises NetworkXPointlessConcept on a graph
\* without nodes.
is_weakly_connected(g) ==
    IF number_of_nodes(g) = 0
    THEN [raised |-> TRUE, value |-> FALSE]
    ELSE [raised |-> FALSE,
          value  |-> WeakComponent(g, {CHOOSE n \in DOMAIN g.node : TRUE}) = DOMAIN g.node]

\* The dictionary node_types: the count of nodes per node_type, "unknown" for
\* a node without one.
NodeTypeCounts(g) ==
    LET type_of(n) == Get(g.node[n], "node_type", "unknown")
    IN [t \in {type_of(n) : n \in DOMAIN g.node} |->
           Cardinality({n \in DOMAIN g.node : type_of(n) = t})]

\* get_graph_stats: {} when the body raised.
get_graph_stats(g) ==
    IF is_weakly_connected(g).raised THEN EmptyFcn
    ELSE [total_nodes  |-> number_of_nodes(g),
          total_edges  |-> number_of_edges(g),
          node_types   |-> NodeTypeCounts(g),
          is_connected |-> is_weakly_connected(g).value]

(***************************************************************************)
(* Inputs                                                                  *)
(***************************************************************************)
\* The metadata load_pdf builds for a document.
DocMetadata(d) ==
    [filename |-> d \o ".pdf", filepath |-> "documents/" \o d \o ".pdf",
     num_pages |-> 1, title |-> d]

\* Contents of documents, as their sentences with lengths in characters: one
\* that fits a chunk, one that takes two chunks, one whose close carries an
\* overlap sentence into the next chunk.
Contents ==
    {<<Sentence(400, <<W("Section", "12"), W("requires", ""), W("approval", "")>>)>>,
     <<Sentence(400, <<W("Section", "12"), W("requires", ""), W("approval", "")>>),
       Sentence(700, <<W("see", ""), W("chapter", "iv")>>)>>,
     <<Sentence(700, <<W("see", ""), W("chapter", "iv")>>),
       Sentence(150, <<W("Done", "")>>),
       Sentence(400, <<W("Section", "12"), W("requires", ""), W("approval", "")>>)>>}

RECURSIVE SeqsUpTo(_, _)
SeqsUpTo(S, k) ==
    IF k = 0 THEN {<<>>}
    ELSE LET shorter == SeqsUpTo(S, k - 1)
         IN shorter \cup {Append(q, x) : q \in {y \in shorter : Len(y) = k - 1}, x \in S}

\* Texts of chunks built directly as Chunk(text, metadata, chunk_id):
\* chunk i of document d.
DirectText(d, i) ==
    CASE d = "d1" /\ i = 0 ->
            [len |-> 28, words |-> <<W("Section", "12"), W("requires", ""), W("approval", "")>>]
      [] d = "d1" /\ i = 1 ->
            [len |-> 18, words |-> <<W("chapter", "iv"), W("applies", "")>>]
      [] d = "d2" /\ i = 0 ->
            [len |-> 29, words |-> <<W("see", ""), W("section", "12"), W("and", ""), W("Chapter", "IV")>>]
      [] d = "d2" /\ i = 1 ->
            [len |-> 23, words |-> <<W("Section", "5"), W("and", ""), W("section", "5")>>]
      [] OTHER ->
            [len |-> 12, words |-> <<W("No", ""), W("reference", "")>>]

\* n chunks of document d built directly, with the ids the segmenter gives
\* and the document's metadata as their metadata.
DirectChunks(d, n) ==
    [i \in 1..n |-> Chunk(DirectText(d, i - 1), DocMetadata(d), ChunkId(d, i - 1))]

\* The ids delete_document is called with: the documents, an id that names
\* nothing, the id of a chunk and the id of an entity.
DeleteIds == Docs \cup {UnknownId, ChunkId("d1", 1), "section_12"}

\* The ids get_related_chunks is seeded with.
SeedPool == {ChunkId("d1", 0), ChunkId("d2", 1), "d1", UnknownId}

\* The ids the reports are asked about: chunks, a document, an entity and an
\* id that names nothing.
ReportIds ==
    {ChunkId("d1", 0), ChunkId("d2", 0), ChunkId("d2", 1), "d1", "section_12", UnknownId}

\* max_depth: int = 2 of get_related_chunks, and the max_chunks that
\* SarthiPipeline.query passes.
DefaultMaxDepth == 2
QueryMaxChunks == 3

(***************************************************************************)
(* State machine                                                           *)
(***************************************************************************)
NoQuery ==
    [called |-> FALSE, op |-> "", arg |-> "", chunk_ids |-> <<>>, max_depth |-> 0,
     max_chunks |-> 0, result |-> <<>>]

\* A call of a report: its name, its argument and what it returned.
Report(op, arg, result) ==
    [called |-> TRUE, op |-> op, arg |-> arg, chunk_ids |-> <<>>, max_depth |-> 0,
     max_chunks |-> 0, result |-> result]

Record(op, arg, n, src, r) ==
    [op |-> op, arg |-> arg, n |-> n, src |-> src, save |-> r.save, raised |-> r.raised]

\* The threads of the server process that call the store: the thread that
\* startup_event starts for initialize_system, the pool thread that runs the
\* background task of POST /api/initialize, and the event loop, which runs
\* the bodies of the async endpoints.
Threads == {"startup", "worker", "loop"}

\* A thread that is inside no call of the store.
IdleThread ==
    [pc |-> "idle", op |-> "", doc_id |-> "", chunks |-> <<>>, i |-> 0, data |-> EmptyFcn,
     raced |-> FALSE]

\* The vector index (storage/vector_store.py), as the pipeline uses it: for
\* every document whose chunks it holds, the ids of these chunks.  It is
\* kept outside the process and outlives it.
VectorStore == EmptyFcn

\* vector_store.add_chunks(chunks, doc_id): on success the chunks are indexed
\* under the document; ok is whether the index accepts them.
add_chunks(vs, chunks, doc_id, ok) ==
    IF ok
    THEN [store |-> (doc_id :> [i \in 1..Len(chunks) |-> chunks[i].chunk_id]) @@ vs,
          success |-> TRUE]
    ELSE [store |-> vs, success |-> FALSE]

\* vector_store.is_document_processed(doc_id)
is_document_processed(vs, doc_id) == doc_id \in DOMAIN vs

\* vector_store.clear_all()
vector_store_clear_all(vs) == VectorStore

\* A document as document_loader hands it over.
Document(doc_id, content) ==
    [doc_id |-> doc_id, content |-> content, metadata |-> DocMetadata(doc_id)]

\* What _process_document leaves and returns: v is what add_chunks returned,
\* r what add_document, called on its success, left.
Processed(g, dsk, chunks, v, r) ==
    IF v.success
    THEN [graph |-> r.graph, disk |-> r.disk, vector_store |-> v.store, save |-> r.save,
          raised |-> r.raised, success |-> TRUE, chunks |-> chunks]
    ELSE [graph |-> g, disk |-> dsk, vector_store |-> v.store, save |-> "none",
          raised |-> FALSE, success |-> FALSE, chunks |-> chunks]

\* The body of _process_document once the document is segmented.
ProcessChunks(g, dsk, vs, doc, chunks, vector_success, fault) ==
    IF chunks = <<>>
    THEN [graph |-> g, disk |-> dsk, vector_store |-> vs, save |-> "none",
          raised |-> FALSE, success |-> FALSE, chunks |-> chunks]
    ELSE Processed(g, dsk, chunks, add_chunks(vs, chunks, doc.doc_id, vector_success),
                   add_document(g, dsk, doc.doc_id, chunks, doc.metadata, fault))

\* SarthiPipeline._process_document(doc): segment, hand the chunks to the
\* vector store, and on its success to the graph; returns vector_success.
_process_document(g, dsk, vs, doc, vector_success, fault) ==
    ProcessChunks(g, dsk, vs, doc,
                  chunk_text(doc.content, doc.metadata, doc.doc_id, CHUNK_SIZE, CHUNK_OVERLAP),
                  vector_success, fault)

\* The outcome of the loop of initialize_system: that of the first new
\* document, r, followed by that of the others, rest.
AfterDocument(r, rest) ==
    [rest EXCEPT
       !.save = IF rest.save # "none" THEN rest.save ELSE r.save,
       !.new_documents_processed = @ + (IF r.success THEN 1 ELSE 0)]

\* The loop of initialize_system over the new documents; ok[d] is whether the
\* vector index accepts the chunks of d, fault[d] the outcome of the write
\* that the ingestion of d attempts.
RECURSIVE ProcessNewDocuments(_, _, _, _, _, _)
RECURSIVE ProcessRest(_, _, _, _)
ProcessRest(r, new_documents, ok, fault) ==
    AfterDocument(r, ProcessNewDocuments(r.graph, r.disk, r.vector_store,
                                         new_documents, ok, fault))

ProcessNewDocuments(g, dsk, vs, new_documents, ok, fault) ==
    IF new_documents = <<>>
    THEN [graph |-> g, disk |-> dsk, vector_store |-> vs, save |-> "none",
          raised |-> FALSE, new_documents_processed |-> 0]
    ELSE ProcessRest(_process_document(g, dsk, vs, Head(new_documents),
                                       ok[Head(new_documents).doc_id],
                                       fault[Head(new_documents).doc_id]),
                     Tail(new_documents), ok, fault)

\* SarthiPipeline.initialize_system(): the documents the vector index does
\* not report as processed are processed, one after the other.
initialize_system(g, dsk, vs, documents, ok, fault) ==
    ProcessNewDocuments(g, dsk, vs,
                        SelectSeq(documents,
                                  LAMBDA doc : ~is_document_processed(vs, doc.doc_id)),
                        ok, fault)

\* Module import: graph_rag = GraphRAG() on whatever file is there.
Init ==
    /\ disk \in {NoFile, TruncatedFile, JsonFile(EmptyFcn)}
    /\ graph = _load_graph(disk).graph
    /\ last = Record("init", "", 0, "", [save |-> "none", raised |-> _load_graph(disk).raised])
    /\ query = NoQuery
    /\ steps = 0
    /\ threads = [t \in Threads |-> IdleThread]
    /\ chunker = SemanticChunker(CHUNK_SIZE, CHUNK_OVERLAP)
    /\ vector_store = VectorStore

\* A call that may change the store; it starts when no query is being served.
Step(op, arg, n, src, r) ==
    /\ steps < MaxSteps
    /\ ~query.called
    /\ graph' = r.graph
    /\ disk' = r.disk
    /\ last' = Record(op, arg, n, src, r)
    /\ query' = NoQuery
    /\ steps' = steps + 1
    /\ UNCHANGED <<threads, chunker>>

\* A call of the graph store, which leaves the vector index alone.
Mutate(op, arg, n, src, r) == Step(op, arg, n, src, r) /\ UNCHANGED vector_store

\* The outcomes of the write a call attempts, among those the disk can
\* produce: none when the call attempts no write.
FaultsOf(attempts, faults) == IF attempts THEN faults ELSE {"none"}

\* graph_rag.add_document(doc_id, chunks, metadata) on chunks built directly.
AddDocument(d, n, faults) ==
    /\ steps < MaxSteps
    /\ LET r == add_document(graph, disk, d, DirectChunks(d, n), DocMetadata(d), "none")
       IN \E fault \in FaultsOf(r.save # "none", faults) :
             Mutate("add_document", d, n, "direct",
                    IF fault = "none" THEN r
                    ELSE add_document(graph, disk, d, DirectChunks(d, n), DocMetadata(d), fault))

\* The step of a pipeline call whose outcome is r; a write fault is an
\* outcome only of a call that attempts a write.
PipelineStep(op, arg, n, fault, r) ==
    /\ fault = "none" \/ r.save # "none"
    /\ Step(op, arg, n, "chunker", r)
    /\ vector_store' = r.vector_store

\* The step of _process_document on a document that chunk_text gives chunks for.
Segmented(d, vector_success, fault, r) ==
    /\ r.chunks # <<>>
    /\ PipelineStep(IF vector_success THEN "add_document" ELSE "skipped",
                    d, Len(r.chunks), fault, r)

\* SarthiPipeline._process_document(doc) as a call of its own.
ProcessDocument(d, content, vector_success, faults) ==
    /\ steps < MaxSteps
    /\ \E fault \in faults :
          Segmented(d, vector_success, fault,
                    _process_document(graph, disk, vector_store, Document(d, content),
                                      vector_success, fault))

\* The step of initialize_system whose outcome is r.
Initialized(fault, r) ==
    PipelineStep("initialize_system", "", r.new_documents_processed,
                 IF \A d \in Docs : fault[d] = "none" THEN "none" ELSE "write", r)

\* SarthiPipeline.initialize_system() on the documents of the directory.
InitializeSystem(documents, ok, faults) ==
    /\ steps < MaxSteps
    /\ \E fault \in [Docs -> faults] :
          Initialized(fault,
                      initialize_system(graph, disk, vector_store, documents, ok, fault))

\* SarthiPipeline.clear_all_data(): the vector index, then the graph (the
\* conversation memory, cleared last, is not part of the model).
ClearAllData(faults) ==
    /\ steps < MaxSteps
    /\ \E fault \in faults :
          /\ Step("clear_all_data", "", 0, "", clear_all(graph, disk, fault))
          /\ vector_store' = vector_store_clear_all(vector_store)

DeleteDocument(id, faults) ==
    /\ steps < MaxSteps
    /\ \E fault \in FaultsOf(has_node(graph, id), faults) :
          Mutate("delete_document", id, 0, "", delete_document(graph, disk, id, fault))

ClearAll(faults) ==
    /\ steps < MaxSteps
    /\ \E fault \in faults : Mutate("clear_all", "", 0, "", clear_all(graph, disk, fault))

\* The process ends and a new one imports the module.
Restart ==
    LET r == _load_graph(disk)
    IN steps < MaxSteps /\ Mutate("init", "", 0, "",
              [graph |-> r.graph, disk |-> disk, save |-> "none", raised |-> r.raised])

\* graph_rag.get_related_chunks(chunk_ids, max_depth, max_chunks): the call
\* and the list it returns.
GetRelatedChunks(chunk_ids, max_depth, max_chunks) ==
    /\ ~query.called
    /\ \E result \in get_related_chunks(graph, chunk_ids, max_depth, max_chunks) :
          query' = [called |-> TRUE, op |-> "get_related_chunks", arg |-> "",
                    chunk_ids |-> chunk_ids, max_depth |-> max_depth,
                    max_chunks |-> max_chunks, result |-> result]
    /\ UNCHANGED <<graph, disk, last, steps, threads, chunker, vector_store>>

\* SarthiPipeline.query(user_query) with graph expansion: of what it does,
\* the call get_related_chunks(chunk_ids, max_chunks=3) on the ids of the
\* first search results touches the store; max_depth has its default, 2.
Query(chunk_ids) ==
    /\ ~query.called
    /\ \E result \in get_related_chunks(graph, chunk_ids, DefaultMaxDepth, QueryMaxChunks) :
          query' = [called |-> TRUE, op |-> "query", arg |-> "",
                    chunk_ids |-> chunk_ids, max_depth |-> DefaultMaxDepth,
                    max_chunks |-> QueryMaxChunks, result |-> result]
    /\ UNCHANGED <<graph, disk, last, steps, threads, chunker, vector_store>>

FindCrossReferences(chunk_id) ==
    /\ ~query.called
    /\ \E result \in find_cross_references(graph, chunk_id) :
          query' = Report("find_cross_references", chunk_id, result)
    /\ UNCHANGED <<graph, disk, last, steps, threads, chunker, vector_store>>

GetDocumentStructure(doc_id) ==
    /\ ~query.called
    /\ query' = Report("get_document_structure", doc_id, get_document_structure(graph, doc_id))
    /\ UNCHANGED <<graph, disk, last, steps, threads, chunker, vector_store>>

\* get_graph_stats that ends with a save of the graph.
GetGraphStats_saving ==
    /\ ~query.called
    /\ query' = Report("get_graph_stats", "", get_graph_stats(graph))
    /\ disk' = _save_graph(graph, disk, "none").disk
    /\ UNCHANGED <<graph, last, steps, threads, chunker, vector_store>>

GetGraphStats ==
    /\ ~query.called
    /\ query' = Report("get_graph_stats", "", get_graph_stats(graph))
    /\ UNCHANGED <<graph, disk, last, steps, threads, chunker, vector_store>>

\* The caller has taken the result of its query.
QueryDone ==
    /\ query.called
    /\ query' = NoQuery
    /\ UNCHANGED <<graph, disk, last, steps, threads, chunker, vector_store>>

Next ==
    \/ \E d \in Docs, n \in 1..MaxChunks : AddDocument(d, n, Faults)
    \/ \E id \in DeleteIds : DeleteDocument(id, Faults)
    \/ ClearAll(Faults)
    \/ Restart

Spec == Init /\ [][Next]_vars

\* The documents directory as load_all_documents finds it at a start.
Directories ==
    {<<>>}
       \cup {<<Document(d, content)>> : d \in Docs, content \in Contents}
       \cup {<<Document("d1", c1), Document("d2", c2)>> : c1, c2 \in Contents}

\* The pipeline: initializations, single documents, clear_all_data and
\* restarts of the process.
NextP ==
    \/ \E d \in Docs, content \in Contents, vs \in BOOLEAN :
          ProcessDocument(d, content, vs, Faults)
    \/ \E documents \in Directories, ok \in [Docs -> BOOLEAN] :
          InitializeSystem(documents, ok, Faults)
    \/ ClearAllData(Faults)
    \/ Restart

SpecP == Init /\ [][NextP]_vars

\* Queries, on the stores that calls whose writes succeed build.
SeedLists == SeqsUpTo(SeedPool, 2)

Depths == {0, 1, 2}

Limits == {0, 1, 2}

NextQ ==
    \/ \E d \in Docs, n \in 1..MaxChunks :
          steps < MaxQuerySteps /\ AddDocument(d, n, {"none"})
    \/ \E id \in DeleteIds :
          steps < MaxQuerySteps /\ DeleteDocument(id, {"none"})
    \/ steps < MaxQuerySteps /\ ClearAll({"none"})
    \/ \E chunk_ids \in SeedLists, max_depth \in Depths, max_chunks \in Limits :
          GetRelatedChunks(chunk_ids, max_depth, max_chunks)
    \/ \E chunk_ids \in SeedLists : Query(chunk_ids)
    \/ \E id \in ReportIds : FindCrossReferences(id)
    \/ \E id \in ReportIds : GetDocumentStructure(id)
    \/ GetGraphStats
    \/ QueryDone

SpecQ == Init /\ [][NextQ]_vars

(***************************************************************************)
(* The calls as the threads of the server run them: statement by           *)
(* statement, a thread switch being possible between two statements.  No   *)
(* statement of add_document, clear_all or _save_graph takes a lock, and   *)
(* none of the reports does.  A report is run by the event loop, in one    *)
(* step.                                                                   *)
(***************************************************************************)
InFlight(t) == threads[t].pc # "idle"

\* The chunks a thread hands to add_document: built directly, or made by
\* chunk_text of a text of one sentence.
ThreadChunks(d) ==
    {DirectChunks(d, MaxThreadChunks),
     chunk_text(<<Sentence(400, <<W("Section", "12"), W("requires", ""), W("approval", "")>>)>>,
                DocMetadata(d), d, CHUNK_SIZE, CHUNK_OVERLAP)}

Goto(t, pc) == threads' = [threads EXCEPT ![t].pc = pc]

\* The call of thread t returns.
Return(t, save) ==
    /\ threads' = [threads EXCEPT ![t] = IdleThread]
    /\ last' = [op |-> threads[t].op, arg |-> threads[t].doc_id,
                n |-> Len(threads[t].chunks), src |-> t, save |-> save, raised |-> FALSE]

\* Thread t enters add_document(doc_id, chunks, metadata).
CallAddDocument(t, d, chunks) ==
    /\ steps < MaxCalls /\ ~query.called /\ ~InFlight(t)
    /\ threads' = [threads EXCEPT ![t] =
                      [IdleThread EXCEPT !.pc = "add_document", !.op = "add_document",
                                         !.doc_id = d, !.chunks = chunks]]
    /\ steps' = steps + 1
    /\ UNCHANGED <<graph, disk, last, query, chunker, vector_store>>

\* Thread t enters clear_all().
CallClearAll(t) ==
    /\ steps < MaxCalls /\ ~query.called /\ ~InFlight(t)
    /\ threads' = [threads EXCEPT ![t] =
                      [IdleThread EXCEPT !.pc = "clear_all", !.op = "clear_all"]]
    /\ steps' = steps + 1
    /\ UNCHANGED <<graph, disk, last, query, chunker, vector_store>>

\* self.graph.add_node(doc_id, node_type="document", **metadata)
AddDocumentNode(t) ==
    /\ ~query.called /\ threads[t].pc = "add_document"
    /\ graph' = add_node(graph, threads[t].doc_id,
                         [node_type |-> "document"] @@ DocMetadata(threads[t].doc_id))
    /\ Goto(t, IF threads[t].chunks = <<>> THEN "save" ELSE "chunk")
    /\ UNCHANGED <<disk, last, query, steps, chunker, vector_store>>

\* self.graph.add_node(chunk_id, node_type="chunk", ...) of chunk i; the
\* TypeError of a keyword given twice ends the call in its except clause.
AddChunkNode(t) ==
    /\ ~query.called /\ threads[t].pc = "chunk"
    /\ LET chunk == threads[t].chunks[threads[t].i + 1]
       IN IF (DOMAIN chunk.metadata) \cap ChunkKeywords # {}
          THEN Return(t, "none") /\ UNCHANGED graph
          ELSE /\ graph' = add_node(graph, chunk.chunk_id,
                                    [node_type |-> "chunk", text |-> chunk.text,
                                     chunk_num |-> threads[t].i] @@ chunk.metadata)
               /\ Goto(t, "contains")
               /\ UNCHANGED last
    /\ UNCHANGED <<disk, query, steps, chunker, vector_store>>

\* self.graph.add_edge(doc_id, chunk_id, relation="contains")
AddContainsEdge(t) ==
    /\ ~query.called /\ threads[t].pc = "contains"
    /\ graph' = add_edge(graph, threads[t].doc_id,
                         threads[t].chunks[threads[t].i + 1].chunk_id,
                         [relation |-> "contains"])
    /\ Goto(t, IF threads[t].i > 0 THEN "precedes" ELSE "entities")
    /\ UNCHANGED <<disk, last, query, steps, chunker, vector_store>>

\* self.graph.add_edge(prev_chunk_id, chunk_id, relation="precedes")
AddPrecedesEdge(t) ==
    /\ ~query.called /\ threads[t].pc = "precedes"
    /\ graph' = add_edge(graph, threads[t].chunks[threads[t].i].chunk_id,
                         threads[t].chunks[threads[t].i + 1].chunk_id,
                         [relation |-> "precedes"])
    /\ Goto(t, "entities")
    /\ UNCHANGED <<disk, last, query, steps, chunker, vector_store>>

\* self._extract_and_link_entities(chunk), then the next turn of the loop.
LinkChunkEntities(t) ==
    /\ ~query.called /\ threads[t].pc = "entities"
    /\ graph' = _extract_and_link_entities(graph, threads[t].chunks[threads[t].i + 1])
    /\ threads' = [threads EXCEPT ![t].i = @ + 1,
                                  ![t].pc = IF threads[t].i + 1 = Len(threads[t].chunks)
                                            THEN "save" ELSE "chunk"]
    /\ UNCHANGED <<disk, last, query, steps, chunker, vector_store>>

\* self.graph.clear()
ClearGraph(t) ==
    /\ ~query.called /\ threads[t].pc = "clear_all"
    /\ graph' = DiGraph
    /\ Goto(t, "save")
    /\ UNCHANGED <<disk, last, query, steps, chunker, vector_store>>

\* _save_graph: data = nx.node_link_data(self.graph) and open(file, 'w'),
\* which empties the file.  Two threads that have the file open at once
\* write over each other.
OpenGraphFile(t) ==
    /\ ~query.called /\ threads[t].pc = "save"
    /\ LET others == {u \in Threads \ {t} : threads[u].pc = "dump"}
       IN threads' = [u \in Threads |->
                        IF u = t
                        THEN [threads[t] EXCEPT !.pc = "dump",
                                                !.data = node_link_data(graph),
                                                !.raced = others # {}]
                        ELSE IF u \in others THEN [threads[u] EXCEPT !.raced = TRUE]
                        ELSE threads[u]]
    /\ disk' = TruncatedFile
    /\ UNCHANGED <<graph, last, query, steps, chunker, vector_store>>

\* json.dump(data, f) and the close of the file: the file holds the data of
\* this thread, or, written over by another thread meanwhile, text that is
\* no JSON.
DumpGraphFile(t) ==
    /\ ~query.called /\ threads[t].pc = "dump"
    /\ disk' \in (IF threads[t].raced THEN {TruncatedFile} ELSE {}) \cup
                 {JsonFile(threads[t].data)}
    /\ Return(t, "ok")
    /\ UNCHANGED <<graph, query, steps, chunker, vector_store>>

Writers == {"startup", "worker"}

NextC ==
    \/ \E t \in Writers, d \in Docs : \E chunks \in ThreadChunks(d) :
          CallAddDocument(t, d, chunks)
    \/ CallClearAll("loop")
    \/ \E t \in Threads : AddDocumentNode(t)
    \/ \E t \in Threads : AddChunkNode(t)
    \/ \E t \in Threads : AddContainsEdge(t)
    \/ \E t \in Threads : AddPrecedesEdge(t)
    \/ \E t \in Threads : LinkChunkEntities(t)
    \/ \E t \in Threads : ClearGraph(t)
    \/ \E t \in Threads : OpenGraphFile(t)
    \/ \E t \in Threads : DumpGraphFile(t)
    \/ ~InFlight("loop") /\ GetGraphStats
    \/ \E d \in Docs : ~InFlight("loop") /\ GetDocumentStructure(d)
    \/ QueryDone

SpecC == Init /\ [][NextC]_vars

(***************************************************************************)
(* The segmenter on its own: a SemanticChunker of some chunk_size and      *)
(* chunk_overlap, 0 < chunk_overlap < chunk_size, is handed a text.        *)
(***************************************************************************)
PieceLens == {8, 20, 50, 60}

\* The pieces texts are made of: one that ends a sentence, followed by one
\* or by two characters of white space; one without a terminator; one that
\* starts with a lower-case letter.
Pieces ==
    {Piece(n, v[1], v[2], v[3]) :
        n \in PieceLens,
        v \in {<<TRUE, TRUE, 1>>, <<TRUE, TRUE, 2>>, <<FALSE, TRUE, 1>>, <<TRUE, FALSE, 1>>}}

\* Five sentences of 20 characters each.
FiveSentences == Text(0, [k \in 1..5 |-> Piece(20, TRUE, TRUE, 1)])

Texts ==
    {Text(lead, pieces) : lead \in {0, 1}, pieces \in SeqsUpTo(Pieces, MaxPieces)}
    \cup {FiveSentences}

\* The pairs (chunk_size, chunk_overlap) of the chunkers.
ChunkerSettings == {<<50, 10>>, <<50, 20>>}

InitT ==
    /\ Init
    /\ disk = NoFile

\* chunker = SemanticChunker(chunk_size, chunk_overlap) and the text of its call.
NewChunker(chunk_size, chunk_overlap, text) ==
    /\ steps = 0
    /\ chunker' = [SemanticChunker(chunk_size, chunk_overlap) EXCEPT !.text = text]
    /\ steps' = 1
    /\ UNCHANGED <<graph, disk, last, query, threads, vector_store>>

\* chunker.chunk_text(text, metadata, doc_id)
ChunkText(d) ==
    /\ steps = 1
    /\ ~chunker.called
    /\ chunker' = [chunker EXCEPT
                      !.called = TRUE,
                      !.chunks = chunk_text(_split_into_sentences(chunker.text), DocMetadata(d),
                                            d, chunker.chunk_size, chunker.chunk_overlap)]
    /\ UNCHANGED <<graph, disk, last, query, steps, threads, vector_store>>

NextT ==
    \/ steps = 0 /\ \E st \in ChunkerSettings, text \in Texts :
                        NewChunker(st[1], st[2], text)
    \/ ChunkText("d1")

SpecT == InitT /\ [][NextT]_vars

(***************************************************************************)
(* Vocabulary of the properties                                            *)
(***************************************************************************)
Nodes(g) == DOMAIN g.node

NodesOfType(g, t) == {n \in Nodes(g) : node_type(g, n) = t}

EdgesOf(g, relation) ==
    {e \in DOMAIN g.adj : Get(g.adj[e], "relation", "None") = relation}

\* The chunk nodes a document node contains.
ChunksOf(g, d) == {c \in NodesOfType(g, "chunk") : <<d, c>> \in EdgesOf(g, "contains")}

Entities(g) == NodesOfType(g, "section") \cup NodesOfType(g, "chapter")

\* The pairs of chunks of cs that are next to each other in ordinal order.
ConsecutivePairs(g, cs) ==
    {e \in cs \X cs :
        /\ g.node[e[1]].chunk_num < g.node[e[2]].chunk_num
        /\ ~\E c \in cs : /\ g.node[e[1]].chunk_num < g.node[c].chunk_num
                          /\ g.node[c].chunk_num < g.node[e[2]].chunk_num}

\* The file describes exactly this graph.
FileDescribes(dsk, g) == dsk = JsonFile(node_link_data(g))

Min(a, b) == IF a < b THEN a ELSE b

(***************************************************************************)
(* C1.  Ingesting, into a store without the document, the N >= 1 chunks    *)
(* that chunk_text made of a text adds exactly 1 document node, N chunk    *)
(* nodes, N contains edges from the document to each chunk and N-1         *)
(* precedes edges from chunk i-1 to chunk i.                               *)
(***************************************************************************)
C1_IngestSegmentedText ==
    [][(/\ last'.op = "add_document"
        /\ last'.src = "chunker"
        /\ ~has_node(graph, last'.arg))
       => LET d == last'.arg
              N == last'.n
              new == Nodes(graph') \ Nodes(graph)
              chunks == {ChunkId(d, i) : i \in 0..(N - 1)}
          IN /\ new \cap NodesOfType(graph', "document") = {d}
             /\ new \cap NodesOfType(graph', "chunk") = chunks
             /\ Cardinality(chunks) = N
             /\ EdgesOf(graph', "contains") \ EdgesOf(graph, "contains")
                   = {<<d, c>> : c \in chunks}
             /\ EdgesOf(graph', "precedes") \ EdgesOf(graph, "precedes")
                   = {<<ChunkId(d, i - 1), ChunkId(d, i)>> : i \in 1..(N - 1)}]_vars

(***************************************************************************)
(* C2.  In every state of the store each chunk node has exactly one        *)
(* incoming contains edge, from a document node, and the precedes edges    *)
(* among the chunks of each document are exactly the edges between chunks  *)
(* next to each other in ordinal order (one path through all of them).     *)
(***************************************************************************)
C2_ChunkStructure ==
    /\ \A c \in NodesOfType(graph, "chunk") :
          /\ Cardinality({e \in EdgesOf(graph, "contains") : e[2] = c}) = 1
          /\ \E d \in NodesOfType(graph, "document") : <<d, c>> \in EdgesOf(graph, "contains")
    /\ \A d \in NodesOfType(graph, "document") :
          LET cs == ChunksOf(graph, d)
          IN {e \in EdgesOf(graph, "precedes") : e[1] \in cs \/ e[2] \in cs}
                = ConsecutivePairs(graph, cs)

(***************************************************************************)
(* C3.  delete_document of a document node with N chunks removes exactly   *)
(* these N+1 nodes and the edges at them; every other node (entities       *)
(* included, referenced or not) and every other edge stays as it was.      *)
(***************************************************************************)
C3_DeleteRemovesDocument ==
    [][(/\ last'.op = "delete_document"
        /\ has_node(graph, last'.arg)
        /\ node_type(graph, last'.arg) = "document")
       => LET d == last'.arg
              gone == {d} \cup ChunksOf(graph, d)
              keptEdges == {e \in DOMAIN graph.adj : e[1] \notin gone /\ e[2] \notin gone}
          IN /\ Nodes(graph') = Nodes(graph) \ gone
             /\ number_of_nodes(graph) - number_of_nodes(graph')
                   = Cardinality(ChunksOf(graph, d)) + 1
             /\ \A n \in Nodes(graph') : graph'.node[n] = graph.node[n]
             /\ Entities(graph') = Entities(graph)
             /\ DOMAIN graph'.adj = keptEdges
             /\ \A e \in keptEdges : graph'.adj[e] = graph.adj[e]]_vars

\* A document with chunks was deleted; an entity only it referenced and
\* another document with its chunks and references are still there.
C3_Witness ==
    /\ last.op = "delete_document" /\ last.arg = "d1" /\ last.save = "ok"
    /\ has_node(graph, "chapter_iv") /\ predecessors(graph, "chapter_iv") = {}
    /\ ~has_node(graph, ChunkId("d1", 1))
    /\ ChunkId("d2", 0) \in ChunksOf(graph, "d2")
    /\ <<ChunkId("d2", 0), "section_12">> \in EdgesOf(graph, "references")

(***************************************************************************)
(* C4.  delete_document of an id that is not a document of the store       *)
(* changes neither the graph nor the file and raises nothing.              *)
(***************************************************************************)
C4_DeleteNonDocumentNoOp ==
    [][(/\ last'.op = "delete_document"
        /\ ~(has_node(graph, last'.arg) /\ node_type(graph, last'.arg) = "document"))
       => /\ graph' = graph
          /\ disk' = disk
          /\ ~last'.raised]_vars

(***************************************************************************)
(* C5.  After add_document, delete_document of a node of the store or      *)
(* clear_all has returned without a failed write, the file describes       *)
(* exactly the graph in memory.                                            *)
(***************************************************************************)
C5_FileFollowsMutation ==
    (\/ last.op \in {"add_document", "clear_all"} /\ last.save # "failed"
     \/ last.op = "delete_document" /\ last.save = "ok")
    => FileDescribes(disk, graph)

(***************************************************************************)
(* C6.  As claimed: a mutating call whose write failed raises to its       *)
(* caller.                                                                 *)
(***************************************************************************)
C6_WriteFailureSurfaced ==
    last.save = "failed" => last.raised

(***************************************************************************)
(* C6, amended.  A mutating call whose write failed returns normally (the  *)
(* failure is caught and logged in _save_graph) and the graph in memory    *)
(* keeps the mutation.                                                     *)
(***************************************************************************)
C6_WriteFailureSwallowed ==
    last.save = "failed"
    => /\ ~last.raised
       /\ last.op \in {"add_document", "delete_document", "clear_all"}
       /\ last.op = "add_document"
             => has_node(graph, last.arg) /\ node_type(graph, last.arg) = "document"
       /\ last.op = "delete_document" => ~has_node(graph, last.arg)
       /\ last.op = "clear_all" => graph = DiGraph

\* add_document returned after a write that failed on a file that held a graph.
C6_Witness ==
    /\ last.save = "failed" /\ last.op = "add_document"
    /\ disk.kind = "truncated"
    /\ ChunksOf(graph, last.arg) # {}

(***************************************************************************)
(* C7.  A store constructed on a missing file, or on a file that is not a  *)
(* parseable node-link graph, is empty and its construction raises nothing.*)
(***************************************************************************)
C7_BadFileStartsEmpty ==
    (/\ last.op = "init"
     /\ \/ disk.kind \in {"missing", "truncated"}
        \/ disk.kind = "json" /\ ~({"nodes", "links"} \subseteq DOMAIN disk.data))
    => /\ number_of_nodes(graph) = 0
       /\ number_of_edges(graph) = 0
       /\ ~last.raised

\* A process that held a graph ended after a write cut the file short, and
\* the next process was constructed on that file.
C7_Witness ==
    /\ last.op = "init" /\ steps >= 2
    /\ disk.kind = "truncated"
    /\ graph = DiGraph

(***************************************************************************)
(* C8.  Saving the graph and loading the file written gives back the same  *)
(* graph: same node ids and attributes, same edges and relations; a store  *)
(* constructed on a written file serializes to that very file.             *)
(***************************************************************************)
C8_SaveLoadRoundTrip ==
    /\ LET loaded == _load_graph(_save_graph(graph, disk, "none").disk).graph
       IN /\ Nodes(loaded) = Nodes(graph)
          /\ \A n \in Nodes(graph) : loaded.node[n] = graph.node[n]
          /\ DOMAIN loaded.adj = DOMAIN graph.adj
          /\ \A e \in DOMAIN graph.adj : loaded.adj[e] = graph.adj[e]
    /\ (last.op = "init" /\ disk.kind = "json" /\ "nodes" \in DOMAIN disk.data)
          => FileDescribes(disk, graph)

\* A store constructed on the file of two documents whose chunks reference
\* the same entity.
C8_Witness ==
    /\ last.op = "init"
    /\ ChunkId("d1", 0) \in ChunksOf(graph, "d1")
    /\ ChunkId("d2", 0) \in ChunksOf(graph, "d2")
    /\ {ChunkId("d1", 0), ChunkId("d2", 0)} \subseteq predecessors(graph, "section_12")
    /\ node_type(graph, "section_12") = "section"

\* There is a directed path of at most k edges from a to b.
RECURSIVE PathWithin(_, _, _, _)
PathWithin(g, a, b, k) ==
    \/ a = b
    \/ k > 0 /\ \E m \in successors(g, a) : PathWithin(g, m, b, k - 1)

\* A call of get_related_chunks, made directly or by SarthiPipeline.query,
\* has returned.
Expanded == query.called /\ query.op \in {"get_related_chunks", "query"}

\* The seeds of the query served that are chunk nodes of the graph.
ChunkSeeds == Range(query.chunk_ids) \cap NodesOfType(graph, "chunk")

C10_RelatedChunksBounded ==
    Expanded
    => /\ \A i \in 1..Len(query.result) :
             /\ has_node(graph, query.result[i])
             /\ node_type(graph, query.result[i]) = "chunk"
             /\ \E seed \in Range(query.chunk_ids) :
                   /\ has_node(graph, seed)
                   /\ PathWithin(graph, seed, query.result[i], query.max_depth)
       /\ Len(query.result) <= query.max_chunks
       /\ Cardinality(Range(query.result)) = Len(query.result)

\* A query seeded with a document and a chunk, on a graph where the chunks
\* within reach are more than max_chunks and an entity is within reach too,
\* returned max_chunks chunks.
C10_Witness ==
    /\ Expanded /\ query.max_depth = 2 /\ query.max_chunks = 2
    /\ query.chunk_ids = <<"d1", ChunkId("d2", 1)>>
    /\ Cardinality(ChunksOf(graph, "d1")) > 2
    /\ PathWithin(graph, "d1", "section_12", 2)
    /\ Len(query.result) = 2

\* The (type, numeral) pairs a text cites, as _extract_and_link_entities
\* reads them.
CitedPairs(text) ==
    {<<"section", num>> : num \in Range(FindAll(text.words, "section", DecimalNumerals))}
    \cup {<<"chapter", num>> : num \in Range(FindAll(text.words, "chapter", ChapterNumerals))}

\* The entity nodes of a type that carry a numeral.
EntityOf(g, kind, num) ==
    {n \in NodesOfType(g, kind) : Get(g.node[n], kind \o "_num", "None") = num}

\* Every pair the text of chunk node c cites has one entity node, with the id
\* type_numeral, and an edge from c to it, marked references.
ChunkLinked(g, c) ==
    \A p \in CitedPairs(g.node[c].text) :
        /\ EntityOf(g, p[1], p[2]) = {p[1] \o "_" \o p[2]}
        /\ <<c, p[1] \o "_" \o p[2]>> \in EdgesOf(g, "references")

AllChunksLinked(g) == \A c \in NodesOfType(g, "chunk") : ChunkLinked(g, c)

C12_NoReadDuringMutation ==
    query.called => \A t \in Threads : ~InFlight(t)

(***************************************************************************)
(* C13.  There is at most one writer at a time: at most one thread is      *)
(* inside add_document or clear_all, the write of the graph file they end  *)
(* with included, so that no two threads have the graph file open for      *)
(* writing at once.                                                        *)
(***************************************************************************)
C13_SingleWriter ==
    /\ Cardinality({t \in Threads : InFlight(t)}) <= 1
    /\ Cardinality({t \in Threads : threads[t].pc = "dump"}) <= 1

\* The sentences of the text the chunker was handed, and the sentences with
\* the 0-based indices of the range a chunk reports.
SentencesOf(text) == _split_into_sentences(text)

SentencesOfChunk(text, chunk) ==
    SubSeq(SentencesOf(text), chunk.metadata.start_sentence + 1, chunk.metadata.end_sentence)

(***************************************************************************)
(* C14.  With 0 < chunk_overlap < chunk_size, every chunk chunk_text emits *)
(* has a text of at most chunk_size characters, unless it is made of a     *)
(* single sentence that is itself longer than chunk_size.                  *)
(***************************************************************************)
C14_ChunkWithinSize ==
    (chunker.called /\ 0 < chunker.chunk_overlap /\ chunker.chunk_overlap < chunker.chunk_size)
    => \A k \in 1..Len(chunker.chunks) :
          \/ chunker.chunks[k].text.len <= chunker.chunk_size
          \/ /\ Len(SentencesOfChunk(chunker.text, chunker.chunks[k])) = 1
             /\ SentencesOfChunk(chunker.text, chunker.chunks[k])[1].len > chunker.chunk_size

\* The words of a text, piece after piece.
WordsOf(text) == ConcatWords(text.pieces)

\* The white space _split_into_sentences drops or replaces: what the text
\* starts and ends with, and, at each split, what exceeds the one space that
\* the join puts there.
RECURSIVE SplitSurplus(_, _)
SplitSurplus(pieces, k) ==
    IF k >= Len(pieces) THEN 0
    ELSE (IF pieces[k].stop /\ pieces[k + 1].upper THEN pieces[k].gap - 1 ELSE 0)
         + SplitSurplus(pieces, k + 1)

(***************************************************************************)
(* C15.  For every text whose length is less than chunk_size, chunk_text   *)
(* returns exactly one chunk, and that chunk holds the whole text: all of  *)
(* its sentences, hence all of its words.                                  *)
(***************************************************************************)
C15_ShortTextOneChunk ==
    (chunker.called /\ TextLen(chunker.text) < chunker.chunk_size)
    => /\ Len(chunker.chunks) = 1
       /\ chunker.chunks[1].text.words = WordsOf(chunker.text)

(***************************************************************************)
(* C15, amended.  For every text shorter than chunk_size that has a        *)
(* character other than white space, chunk_text returns exactly one chunk, *)
(* numbered 0; it spans all the sentences of the text and its text is the  *)
(* text without the white space it starts and ends with and with one space *)
(* at each sentence boundary.  A text of white space only, the empty text  *)
(* included, gives no chunk.                                               *)
(***************************************************************************)
C15_ShortTextOneChunkUnlessBlank ==
    (chunker.called /\ TextLen(chunker.text) < chunker.chunk_size)
    => IF chunker.text.pieces = <<>>
       THEN chunker.chunks = <<>>
       ELSE /\ Len(chunker.chunks) = 1
            /\ chunker.chunks[1].chunk_id = ChunkId("d1", 0)
            /\ chunker.chunks[1].metadata.start_sentence = 0
            /\ chunker.chunks[1].metadata.end_sentence = Len(SentencesOf(chunker.text))
            /\ chunker.chunks[1].text.words = WordsOf(chunker.text)
            /\ chunker.chunks[1].text.len =
                  TextLen(chunker.text) - chunker.text.lead
                  - chunker.text.pieces[Len(chunker.text.pieces)].gap
                  - SplitSurplus(chunker.text.pieces, 1)

\* A text of three pieces in two sentences, shorter than chunk_size, that
\* starts with white space and has two characters of white space at its
\* sentence boundary, came back as one chunk shorter than the text.
C15_Witness ==
    /\ chunker.called /\ TextLen(chunker.text) < chunker.chunk_size
    /\ Len(chunker.text.pieces) = 3 /\ chunker.text.lead = 1
    /\ Len(SentencesOf(chunker.text)) = 2
    /\ SplitSurplus(chunker.text.pieces, 1) = 1
    /\ Len(chunker.chunks) = 1
    /\ chunker.chunks[1].text.len < TextLen(chunker.text) - 2

\* The number of sentences chunk k shares with chunk k - 1, and their
\* combined length.
Carried(chunks, k) ==
    chunks[k - 1].metadata.end_sentence - chunks[k].metadata.start_sentence

CarriedLen(text, chunks, k) ==
    SumLen(SubSeq(SentencesOf(text), chunks[k].metadata.start_sentence + 1,
                  chunks[k - 1].metadata.end_sentence))

ValidOverlap == 0 < chunker.chunk_overlap /\ chunker.chunk_overlap < chunker.chunk_size

(***************************************************************************)
(* C16.  With 0 < chunk_overlap < chunk_size, every chunk after the first  *)
(* shares sentences with its predecessor: it starts with at least one      *)
(* sentence of the predecessor, those it starts with being a trailing run  *)
(* of whole sentences of the predecessor, in their order, of combined      *)
(* length at most chunk_overlap.                                           *)
(***************************************************************************)
C16_ChunksOverlap ==
    (chunker.called /\ ValidOverlap)
    => \A k \in 2..Len(chunker.chunks) :
          /\ Carried(chunker.chunks, k) >= 1
          /\ chunker.chunks[k].metadata.start_sentence
                >= chunker.chunks[k - 1].metadata.start_sentence
          /\ CarriedLen(chunker.text, chunker.chunks, k) <= chunker.chunk_overlap

(***************************************************************************)
(* C16, amended.  With 0 < chunk_overlap < chunk_size, every chunk after   *)
(* the first is a run of consecutive sentences that starts with the        *)
(* longest trailing run of whole sentences of its predecessor whose        *)
(* combined length is at most chunk_overlap, in their order, and then goes *)
(* on past the predecessor; the run is empty when the last sentence of the *)
(* predecessor is longer than chunk_overlap.                               *)
(***************************************************************************)
C16_ChunksStartWithCarry ==
    (chunker.called /\ ValidOverlap)
    => \A k \in 2..Len(chunker.chunks) :
          LET prev == chunker.chunks[k - 1].metadata
              cur  == chunker.chunks[k].metadata
              sentences == SentencesOf(chunker.text)
          IN /\ prev.start_sentence <= cur.start_sentence
             /\ cur.start_sentence <= prev.end_sentence
             /\ prev.end_sentence < cur.end_sentence
             /\ CarriedLen(chunker.text, chunker.chunks, k) <= chunker.chunk_overlap
             /\ cur.start_sentence > prev.start_sentence
                => CarriedLen(chunker.text, chunker.chunks, k)
                      + sentences[cur.start_sentence].len > chunker.chunk_overlap
             /\ chunker.chunks[k].text
                   = Join(SubSeq(sentences, cur.start_sentence + 1, cur.end_sentence))

\* A chunk that starts with the two sentences its predecessor is made of,
\* 16 characters for a chunk_overlap of 20, and goes on with a third.
C16_Witness ==
    /\ chunker.called /\ ValidOverlap
    /\ Len(chunker.chunks) = 2
    /\ Carried(chunker.chunks, 2) = 2
    /\ CarriedLen(chunker.text, chunker.chunks, 2) = 16
    /\ chunker.chunks[2].metadata.end_sentence = 3

(***************************************************************************)
(* C17.  With chunk_size 50 and chunk_overlap 10, a text of five sentences *)
(* of 20 characters gives exactly three chunks, numbered 0, 1, 2, that     *)
(* hold sentences 1-2, sentences 3-4 and sentence 5, no sentence being     *)
(* carried from a chunk into the next.                                     *)
(***************************************************************************)
C17_FiveSentencesFixture ==
    (/\ chunker.called
     /\ chunker.chunk_size = 50 /\ chunker.chunk_overlap = 10
     /\ Len(SentencesOf(chunker.text)) = 5
     /\ \A i \in 1..5 : SentencesOf(chunker.text)[i].len = 20)
    => /\ Len(chunker.chunks) = 3
       /\ \A k \in 1..3 :
             /\ chunker.chunks[k].metadata.chunk_num = k - 1
             /\ chunker.chunks[k].chunk_id = ChunkId("d1", k - 1)
             /\ chunker.chunks[k].text = Join(SentencesOfChunk(chunker.text, chunker.chunks[k]))
       /\ <<chunker.chunks[1].metadata.start_sentence, chunker.chunks[1].metadata.end_sentence>>
             = <<0, 2>>
       /\ <<chunker.chunks[2].metadata.start_sentence, chunker.chunks[2].metadata.end_sentence>>
             = <<2, 4>>
       /\ <<chunker.chunks[3].metadata.start_sentence, chunker.chunks[3].metadata.end_sentence>>
             = <<4, 5>>
       /\ chunker.chunks[1].text.len = 41 /\ chunker.chunks[3].text.len = 20

\* The chunker of size 50 and overlap 10 has returned from chunk_text on the
\* five sentences.
C17_Witness ==
    /\ chunker.called
    /\ chunker.chunk_size = 50 /\ chunker.chunk_overlap = 10
    /\ chunker.text = FiveSentences
    /\ Len(SentencesOf(chunker.text)) = 5
    /\ Len(chunker.chunks) = 3

MutatingOps == {"add_document", "delete_document", "clear_all"}

(***************************************************************************)
(* C18.  The store is read-only during queries: a step that serves         *)
(* get_related_chunks, find_cross_references, get_document_structure,      *)
(* get_graph_stats or SarthiPipeline.query leaves the nodes, their         *)
(* attributes and the edges of the graph as they were and does not write   *)
(* the graph file; a step that changes the graph or the file is a call of  *)
(* add_document, delete_document or clear_all.                             *)
(***************************************************************************)
C18_QueriesReadOnly ==
    [][/\ (~query.called /\ query'.called) => (graph' = graph /\ disk' = disk)
       /\ (graph' # graph \/ disk' # disk)
          => (steps' = steps + 1 /\ last'.op \in MutatingOps /\ query' = NoQuery)]_vars

\* SarthiPipeline.query has returned three related chunks from a store of
\* two documents whose file describes it.
C18_Witness ==
    /\ query.called /\ query.op = "query"
    /\ Len(query.result) = 3
    /\ Cardinality(NodesOfType(graph, "document")) = 2
    /\ Entities(graph) # {}
    /\ FileDescribes(disk, graph)

RECURSIVE SumCounts(_, _)
SumCounts(counts, keys) ==
    IF keys = {} THEN 0
    ELSE LET key == CHOOSE x \in keys : TRUE
         IN counts[key] + SumCounts(counts, keys \ {key})

\* Every two nodes are joined by edges taken in either direction.
WeaklyConnected(g) == \A a, b \in Nodes(g) : b \in WeakComponent(g, {a})

(***************************************************************************)
(* C19.  In every state of the store, the empty store included (a start   *)
(* without file, or after clear_all), get_graph_stats returns total_nodes  *)
(* equal to the number of nodes, total_edges equal to the number of edges, *)
(* node_types with counts that sum to total_nodes, and is_connected equal  *)
(* to the weak connectivity of the graph.                                  *)
(***************************************************************************)
C19_GraphStats ==
    (query.called /\ query.op = "get_graph_stats")
    => /\ DOMAIN query.result = {"total_nodes", "total_edges", "node_types", "is_connected"}
       /\ query.result.total_nodes = Cardinality(Nodes(graph))
       /\ query.result.total_edges = Cardinality(DOMAIN graph.adj)
       /\ SumCounts(query.result.node_types, DOMAIN query.result.node_types)
             = query.result.total_nodes
       /\ query.result.is_connected = WeaklyConnected(graph)

\* The entities that chunk node c has a references edge to.
ReferencedBy(g, c) == {e \in Entities(g) : <<c, e>> \in EdgesOf(g, "references")}

(***************************************************************************)
(* C20.  find_cross_references(c) returns exactly the chunk nodes other    *)
(* than c that have a references edge to at least one section or chapter   *)
(* entity that c references, each once; the result never holds c itself    *)
(* and holds no id of a document or of an entity.  An id that is no node   *)
(* gives the empty list.                                                   *)
(***************************************************************************)
C20_CrossReferences ==
    (query.called /\ query.op = "find_cross_references")
    => /\ Range(query.result)
             = IF has_node(graph, query.arg)
               THEN {p \in NodesOfType(graph, "chunk") \ {query.arg} :
                        ReferencedBy(graph, p) \cap ReferencedBy(graph, query.arg) # {}}
               ELSE {}
       /\ Cardinality(Range(query.result)) = Len(query.result)
       /\ query.arg \notin Range(query.result)
       /\ \A i \in 1..Len(query.result) : node_type(graph, query.result[i]) = "chunk"

\* The chunk "Section 12 requires approval" of d1 was asked about in a store
\* where a chunk of d2 cites section 12 too and another chunk of d2 does
\* not: the first is returned, alone.
C20_Witness ==
    /\ query.called /\ query.op = "find_cross_references"
    /\ query.arg = ChunkId("d1", 0)
    /\ ReferencedBy(graph, ChunkId("d1", 0)) = {"section_12"}
    /\ has_node(graph, ChunkId("d2", 1))
    /\ predecessors(graph, "section_12") = {ChunkId("d1", 0), ChunkId("d2", 0)}
    /\ query.result = <<ChunkId("d2", 0)>>

\* The graph that a process constructed on the file of g holds.
Reloaded(g) == node_link_graph(node_link_data(g)).graph

\* The section and chapter nodes that chunk c has a references edge to.
ReferencedOf(g, c) == {e[2] : e \in {x \in EdgesOf(g, "references") : x[1] = c}}

\* The structure reported for document d lists N chunks by ascending ordinal,
\* each with its id, its ordinal and exactly the entities it references.
ListsChunks(g, d, N) ==
    LET s == get_document_structure(g, d)
    IN /\ "chunks" \in DOMAIN s
       /\ Len(s.chunks) = N
       /\ \A i \in 1..Len(s.chunks) :
             LET c == s.chunks[i]
             IN /\ c.chunk_id = ChunkId(d, i - 1)
                /\ c.chunk_num = i - 1
                /\ Len(c.references) = Cardinality(ReferencedOf(g, c.chunk_id))
                /\ Range(c.references)
                      = {[type |-> node_type(g, e), id |-> e] :
                            e \in ReferencedOf(g, c.chunk_id)}

(***************************************************************************)
(* C21.  After add_document(d, chunks, metadata) with N chunks,            *)
(* get_document_structure(d) lists exactly N chunk entries in ascending    *)
(* ordinal order, the i-th with the id and the ordinal of chunk i and      *)
(* exactly the section and chapter entities that chunk references; the     *)
(* same holds of the graph read back from the file of that graph.          *)
(***************************************************************************)
C21_DocumentStructure ==
    [][(last'.op = "add_document" /\ steps' = steps + 1)
       => /\ ListsChunks(graph', last'.arg, last'.n)
          /\ ListsChunks(Reloaded(graph'), last'.arg, last'.n)]_vars

(***************************************************************************)
(* C22.  A query on ids the store does not know returns an empty result:   *)
(* get_related_chunks when none of its seeds is a node,                    *)
(* find_cross_references when its chunk id is no node, and                 *)
(* get_document_structure when its id is not a document node of the store  *)
(* (each call returns: none raises).                                       *)
(***************************************************************************)
C22_UnknownIdsEmpty ==
    /\ (Expanded /\ Range(query.chunk_ids) \cap Nodes(graph) = {})
          => query.result = <<>>
    /\ (query.called /\ query.op = "find_cross_references" /\ query.arg \notin Nodes(graph))
          => query.result = <<>>
    /\ (query.called /\ query.op = "get_document_structure"
           /\ query.arg \notin NodesOfType(graph, "document"))
          => query.result = EmptyFcn

(***************************************************************************)
(* C23.  add_document is idempotent: calling it again with the document    *)
(* id, the chunk list and the metadata of the call just made leaves the    *)
(* graph as that call left it (same nodes and attributes, same edges and   *)
(* relations, every node's successors listed once and in the same order).  *)
(***************************************************************************)
C23_IngestIdempotent ==
    [][(last'.op = "add_document" /\ last'.src = "direct" /\ steps' = steps + 1)
       => LET d == last'.arg
              chunks == DirectChunks(d, last'.n)
              twice == add_document(graph', disk, d, chunks, DocMetadata(d), "none").graph
          IN /\ twice = graph'
             /\ \A u \in DOMAIN graph'.succ :
                   Cardinality(Range(graph'.succ[u])) = Len(graph'.succ[u])]_vars

\* Two chunks citing a section and a chapter were ingested, and the same
\* call made again on the graph gives that very graph.
C23_Witness ==
    /\ last.op = "add_document" /\ last.src = "direct" /\ last.arg = "d2" /\ last.n = 2
    /\ ChunksOf(graph, "d2") = {ChunkId("d2", 0), ChunkId("d2", 1)}
    /\ <<ChunkId("d2", 0), ChunkId("d2", 1)>> \in EdgesOf(graph, "precedes")
    /\ Cardinality({e \in EdgesOf(graph, "references") : e[1] \in ChunksOf(graph, "d2")}) >= 3
    /\ add_document(graph, disk, "d2", DirectChunks("d2", 2), DocMetadata("d2"), "none").graph
          = graph

\* The numeral a citation denotes, whatever the case of its letters.
NumeralOf(num) == IF num = "iv" THEN "IV" ELSE num

\* Two chunk nodes whose texts cite the same (type, numeral), the letter case
\* of keyword and numeral set aside, both have a references edge to one and
\* the same entity node of that type.
CitationsShareEntity(g) ==
    \A c1, c2 \in NodesOfType(g, "chunk") :
       \A p1 \in CitedPairs(g.node[c1].text), p2 \in CitedPairs(g.node[c2].text) :
          (p1[1] = p2[1] /\ NumeralOf(p1[2]) = NumeralOf(p2[2]))
             => \E e \in NodesOfType(g, p1[1]) :
                   {<<c1, e>>, <<c2, e>>} \subseteq EdgesOf(g, "references")

(***************************************************************************)
(* C24.  Entity identity depends on (type, numeral) only, not on letter    *)
(* case: when the chunks of the store that cite the same numeral share one *)
(* entity node, they still do after an add_document; a chunk citing        *)
(* 'chapter iv' and a chunk citing 'Chapter IV' both get a references edge *)
(* to one and the same chapter node.                                       *)
(***************************************************************************)
C24_CaseInsensitiveEntity ==
    [][(last'.op = "add_document" /\ steps' = steps + 1 /\ CitationsShareEntity(graph))
       => CitationsShareEntity(graph')]_vars

\* The documents that contain chunk node c.
DocumentsOf(g, c) == {e[1] : e \in {x \in EdgesOf(g, "contains") : x[2] = c}}

(***************************************************************************)
(* C25.  Expansion moves forward inside one document: get_related_chunks   *)
(* seeded with one chunk node, of ordinal k in document d, with max_depth  *)
(* m returns only chunks of d whose ordinals lie between k and k + m,      *)
(* never a chunk before the seed and never a chunk of another document,    *)
(* also when such a chunk references an entity the seed references.        *)
(***************************************************************************)
C25_ExpansionForward ==
    (Expanded /\ Len(query.chunk_ids) = 1 /\ ChunkSeeds # {})
    => LET seed == query.chunk_ids[1]
           k == graph.node[seed].chunk_num
       IN \A c \in Range(query.result) :
             /\ has_node(graph, c)
             /\ DocumentsOf(graph, c) = DocumentsOf(graph, seed)
             /\ k <= graph.node[c].chunk_num
             /\ graph.node[c].chunk_num <= k + query.max_depth

\* A query seeded with the first chunk of d1, which shares the entity
\* section_12 with a chunk of d2, returned that chunk and its successor only.
C25_Witness ==
    /\ Expanded /\ query.chunk_ids = <<ChunkId("d1", 0)>> /\ query.max_depth = 2
    /\ {ChunkId("d1", 0), ChunkId("d2", 0)} \subseteq predecessors(graph, "section_12")
    /\ Range(query.result) = {ChunkId("d1", 0), ChunkId("d1", 1)}

(***************************************************************************)
(* C26.  For a text of n >= 1 sentences the chunks of chunk_text cover     *)
(* contiguous sentence ranges [start_k, end_k), recorded in their          *)
(* metadata: the text of chunk k is the sentences of its range joined by   *)
(* single spaces, the first range starts at 0, the last ends at n, the     *)
(* ends increase strictly and each range starts no later than its          *)
(* predecessor ends; so no sentence is lost or reordered, and there are at *)
(* most n chunks.                                                          *)
(***************************************************************************)
C26_ChunksCoverSentences ==
    (chunker.called /\ Len(SentencesOf(chunker.text)) >= 1)
    => LET sentences == SentencesOf(chunker.text)
           n == Len(sentences)
           chunks == chunker.chunks
           start(k) == chunks[k].metadata.start_sentence
           end(k) == chunks[k].metadata.end_sentence
       IN /\ 1 <= Len(chunks) /\ Len(chunks) <= n
          /\ start(1) = 0
          /\ end(Len(chunks)) = n
          /\ \A k \in 1..Len(chunks) :
                /\ 0 <= start(k) /\ start(k) < end(k) /\ end(k) <= n
                /\ chunks[k].text = Join(SubSeq(sentences, start(k) + 1, end(k)))
          /\ \A k \in 2..Len(chunks) :
                /\ end(k - 1) < end(k)
                /\ start(k) <= end(k - 1)
          /\ UNION {(start(k) + 1)..end(k) : k \in 1..Len(chunks)} = 1..n

\* Three sentences gave three chunks, the second starting with the sentence
\* the first is made of and the third starting where the second ends.
C26_Witness ==
    /\ chunker.called
    /\ Len(SentencesOf(chunker.text)) = 3
    /\ Len(chunker.chunks) = 3
    /\ chunker.chunks[2].metadata.start_sentence = 0
    /\ chunker.chunks[2].metadata.end_sentence = 2
    /\ chunker.chunks[3].metadata.start_sentence = 2

(***************************************************************************)
(* C27.  When initialize_system has returned, every document the vector    *)
(* index reports as processed has its document node in the graph and every *)
(* chunk indexed for it is a chunk node of that document; this after any   *)
(* sequence of initializations, restarts (also on a graph file that is     *)
(* missing or does not parse) and clear_all_data calls.                    *)
(***************************************************************************)
C27_IndexedDocumentsInGraph ==
    last.op = "initialize_system"
    => \A d \in DOMAIN vector_store :
          /\ d \in NodesOfType(graph, "document")
          /\ Range(vector_store[d]) \subseteq ChunksOf(graph, d)

====
